---- MODULE Spec2Model ----
(***************************************************************************)
(* The SQLite driver adapter of QuiteRSS (3rdparty/sqlitex/sqlitedriver.cpp) *)
(* as a state machine: one SQLiteDriver (the connection), its SQLiteResult   *)
(* objects (the cursors) and the native engine behind the sqlite3_* calls.   *)
(* The engine is an environment: what a native call answers is drawn from    *)
(* small sets, what the adapter does with the answer is taken from the code. *)
(***************************************************************************)
EXTENDS Integers, Sequences, FiniteSets, TLC

VARIABLES drv, cur, eng, last

vars == <<drv, cur, eng, last>>

(***************************************************************************)
(* Bounds of the model.                                                      *)
(***************************************************************************)
\* cursors of the connection specification SpecConn
MaxCursors == 2

\* longest identifier handed to escapeIdentifier
MaxIdentLen == 4

Cursors == 1..MaxCursors
\* the cursor of the cursor specification Spec
OneCursor == {1}

(***************************************************************************)
(* Strings the code inspects character by character are sequences of        *)
(* one-character strings.                                                    *)
(***************************************************************************)
UpperChars == <<"A","B","C","D","E","F","G","H","I","J","K","L","M",
                "N","O","P","Q","R","S","T","U","V","W","X","Y","Z">>
LowerChars == <<"a","b","c","d","e","f","g","h","i","j","k","l","m",
                "n","o","p","q","r","s","t","u","v","w","x","y","z">>

toLowerChar(ch) ==
  IF \E i \in 1..Len(UpperChars) : UpperChars[i] = ch
    THEN LowerChars[CHOOSE i \in 1..Len(UpperChars) : UpperChars[i] = ch]
    ELSE ch

toLower(s) == [i \in 1..Len(s) |-> toLowerChar(s[i])]

startsWith(s, p) == Len(s) >= Len(p) /\ SubSeq(s, 1, Len(p)) = p

RECURSIVE removeChar(_, _)
removeChar(s, ch) ==
  IF s = <<>> THEN <<>>
  ELSE IF Head(s) = ch THEN removeChar(Tail(s), ch)
  ELSE <<Head(s)>> \o removeChar(Tail(s), ch)

isSpace(ch) == ch \in {" ", "\t", "\n", "\r"}

\* QString::trimmed
RECURSIVE trimmed(_)
trimmed(s) ==
  IF s = <<>> THEN <<>>
  ELSE IF isSpace(Head(s)) THEN trimmed(Tail(s))
  ELSE IF isSpace(s[Len(s)]) THEN trimmed(SubSeq(s, 1, Len(s) - 1))
  ELSE s

(***************************************************************************)
(* _q_escapeIdentifier and SQLiteDriver::escapeIdentifier.                   *)
(***************************************************************************)
Quote == "\""

\* QString::replace(QChar, QString): every occurrence of ch becomes `after`
RECURSIVE replace(_, _, _)
replace(s, ch, after) ==
  IF s = <<>> THEN <<>>
  ELSE (IF Head(s) = ch THEN after ELSE <<Head(s)>>) \o replace(Tail(s), ch, after)

\* QString::left(1), QString::right(1)
left1(s) == SubSeq(s, 1, 1)
right1(s) == SubSeq(s, Len(s), Len(s))

_q_escapeIdentifier(identifier) ==
  LET doubled(res) == replace(res, Quote, <<Quote, Quote>>)
      wrapped(res) == <<Quote>> \o res \o <<Quote>>
      dotted(res)  == replace(res, ".", <<Quote, ".", Quote>>)
  IN IF /\ identifier # <<>>
        /\ left1(identifier) # <<Quote>>
        /\ right1(identifier) # <<Quote>>
       THEN dotted(wrapped(doubled(identifier)))
       ELSE identifier

escapeIdentifier(identifier) == _q_escapeIdentifier(identifier)

(***************************************************************************)
(* qGetColumnType: a declared type name to a QVariant type.                  *)
(***************************************************************************)
\* a classification that compares the name as it is written
qGetColumnTypeCaseSensitive(tpName) ==
  IF tpName = <<"i","n","t","e","g","e","r">> \/ tpName = <<"i","n","t">>
    THEN "Int"
  ELSE IF \/ tpName = <<"d","o","u","b","l","e">>
          \/ tpName = <<"f","l","o","a","t">>
          \/ tpName = <<"r","e","a","l">>
          \/ startsWith(tpName, <<"n","u","m","e","r","i","c">>)
    THEN "Double"
  ELSE IF tpName = <<"b","l","o","b">>
    THEN "ByteArray"
  ELSE "String"

qGetColumnType(tpName) ==
  LET typeOf(typeName) ==
        IF typeName = <<"i","n","t","e","g","e","r">> \/ typeName = <<"i","n","t">>
          THEN "Int"
        ELSE IF \/ typeName = <<"d","o","u","b","l","e">>
                \/ typeName = <<"f","l","o","a","t">>
                \/ typeName = <<"r","e","a","l">>
                \/ startsWith(typeName, <<"n","u","m","e","r","i","c">>)
          THEN "Double"
        ELSE IF typeName = <<"b","l","o","b">>
          THEN "ByteArray"
        ELSE "String"
  IN typeOf(toLower(tpName))

(***************************************************************************)
(* QSqlError values.  isValid() is errorType != NoError.  The database text  *)
(* read with sqlite3_errmsg16 is the engine's and is not modelled.           *)
(***************************************************************************)
NoCode == "-1"

NoError == [type |-> "NoError", descr |-> "", code |-> NoCode]

QSqlError(descr, type) == [type |-> type, descr |-> descr, code |-> NoCode]

qMakeError(descr, type, errorCode) ==
  [type |-> type, descr |-> descr, code |-> errorCode]

\* a test that finds no error
isValidNever(e) == FALSE

isValid(e) == e.type # "NoError"

(***************************************************************************)
(* The engine's side of a statement.  QueryTable lists the SQL texts the     *)
(* callers hand to prepare, each with what sqlite3_prepare16_v2 and the      *)
(* sqlite3_column_* and sqlite3_bind_parameter_count calls answer for it:    *)
(*   compile  result code of the compilation                                 *)
(*   empty    the text holds no statement (a comment): OK and a null handle  *)
(*   tail     the text left after the first statement (pzTail)               *)
(*   nParams  number of placeholders                                         *)
(*   cols     result columns: name and declared type (<<>> when none)        *)
(*   rows     the rows a step on it can deliver, as storage classes          *)
(***************************************************************************)
QueryTable == <<
  \* SELECT id, ?+1 AS "x" FROM t   followed by blanks
  [compile |-> "SQLITE_OK", empty |-> FALSE, tail |-> <<" ", "\n">>, nParams |-> 1,
   cols |-> << [name |-> <<"i","d">>, decl |-> <<"I","N","T","E","G","E","R">>],
               [name |-> <<"\"","x","\"">>, decl |-> <<>>] >>,
   rows |-> { <<[cls |-> "SQLITE_INTEGER", v |-> 7], [cls |-> "SQLITE_FLOAT", v |-> 25]>>,
              <<[cls |-> "SQLITE_NULL", v |-> 0], [cls |-> "SQLITE_TEXT", v |-> 3]>> }],
  \* INSERT INTO t VALUES (?, ?)
  [compile |-> "SQLITE_OK", empty |-> FALSE, tail |-> <<>>, nParams |-> 2,
   cols |-> <<>>, rows |-> {}],
  \* SELEKT
  [compile |-> "SQLITE_ERROR", empty |-> FALSE, tail |-> <<>>, nParams |-> 0,
   cols |-> <<>>, rows |-> {}],
  \* SELECT 1; SELECT 2
  [compile |-> "SQLITE_OK", empty |-> FALSE, tail |-> <<" ","S","E","L","E","C","T"," ","2">>, nParams |-> 0,
   cols |-> << [name |-> <<"1">>, decl |-> <<>>] >>,
   rows |-> { <<[cls |-> "SQLITE_INTEGER", v |-> 1]>> }],
  \* -- nothing to run
  [compile |-> "SQLITE_OK", empty |-> TRUE, tail |-> <<>>, nParams |-> 0,
   cols |-> <<>>, rows |-> {}],
  \* BEGIN, COMMIT, ROLLBACK
  [compile |-> "SQLITE_OK", empty |-> FALSE, tail |-> <<>>, nParams |-> 0,
   cols |-> <<>>, rows |-> {}]
>>

\* the control statement the transaction functions run
ControlStatement == Len(QueryTable)

\* the texts the callers prepare
Queries == 1..Len(QueryTable) \ {ControlStatement}

\* sqlite3_column_count; 0 for a null statement
column_count(stmt) == IF stmt = 0 THEN 0 ELSE Len(QueryTable[stmt].cols)

\* sqlite3_bind_parameter_count; 0 for a null statement
bind_parameter_count(stmt) == IF stmt = 0 THEN 0 ELSE QueryTable[stmt].nParams

\* the rows a step on stmt can deliver; a column holds a storage class and a
\* payload (a FLOAT counts tenths)
EngineRows(stmt) == IF stmt = 0 THEN {} ELSE QueryTable[stmt].rows

Policies == {"LowPrecisionInt32", "LowPrecisionInt64", "LowPrecisionDouble",
             "HighPrecision"}

StepErrors == {"SQLITE_CONSTRAINT", "SQLITE_ERROR", "SQLITE_MISUSE",
               "SQLITE_BUSY", "SQLITE_IOERR"}

hasFloat(row) == \E i \in 1..Len(row) : row[i].cls = "SQLITE_FLOAT"

DoneInput == [res |-> "SQLITE_DONE", row |-> <<>>, policy |-> "HighPrecision"]

StepResults == {"SQLITE_ROW", "SQLITE_DONE"} \cup StepErrors

\* what one sqlite3_step on stmt can answer among the results `steps`, with
\* the numerical precision policy the cursor is set to at that moment
FetchInputs(stmt, steps) ==
  IF stmt = 0 THEN {DoneInput}
  ELSE
  {[res |-> "SQLITE_ROW", row |-> r, policy |-> p] :
      r \in {x \in EngineRows(stmt) : hasFloat(x) /\ "SQLITE_ROW" \in steps},
      p \in Policies}
    \cup {[res |-> "SQLITE_ROW", row |-> r, policy |-> "HighPrecision"] :
            r \in {x \in EngineRows(stmt) : ~hasFloat(x) /\ "SQLITE_ROW" \in steps}}
    \cup {[res |-> x, row |-> <<>>, policy |-> "HighPrecision"] :
            x \in steps \ {"SQLITE_ROW"}}

\* one native call as the operation log keeps it: function, result, a number
\* (bind position, timeout, 1 when prepare produced a statement) and a text
Call(f, r, n, a) == [f |-> f, r |-> r, n |-> n, a |-> a]

(***************************************************************************)
(* QVariant values: type tag, isNull, payload.                               *)
(***************************************************************************)
Variant(t, null, v) == [t |-> t, null |-> null, v |-> v]

Invalid == Variant("Invalid", TRUE, 0)

(***************************************************************************)
(* SQLiteResultPrivate and the QSqlResult flags of one cursor.               *)
(***************************************************************************)
NewCursor(access) ==
  [alive |-> TRUE, access |-> access, stmt |-> 0,
   skippedStatus |-> FALSE, skipRow |-> FALSE,
   rInf |-> <<>>, firstRow |-> <<>>,
   at |-> "BeforeFirstRow", active |-> FALSE, select |-> FALSE,
   lastError |-> NoError]

Dead == [NewCursor("null") EXCEPT !.alive = FALSE]

\* a finalize that keeps the pointer to the statement it freed
finalizeDangling(cu) ==
  IF cu.stmt = 0
    THEN [cu |-> cu, calls |-> <<>>]
    ELSE [cu |-> cu,
          calls |-> <<Call("sqlite3_finalize", "SQLITE_OK", 0, "")>>]

finalize(cu) ==
  IF cu.stmt = 0
    THEN [cu |-> cu, calls |-> <<>>]
    ELSE [cu |-> [cu EXCEPT !.stmt = 0],
          calls |-> <<Call("sqlite3_finalize", "SQLITE_OK", 0, "")>>]

\* a cleanup that forgets the statement
cleanupKeepsStatement(cu) ==
  [cu |-> [cu EXCEPT !.rInf = <<>>,
                     !.skippedStatus = FALSE,
                     !.skipRow = FALSE,
                     !.at = "BeforeFirstRow",
                     !.active = FALSE],
   calls |-> <<>>]

\* a cleanup that keeps the column metadata
cleanupKeepsColumns(cu) ==
  LET rest(fin) ==
        [cu |-> [fin.cu EXCEPT !.skippedStatus = FALSE,
                               !.skipRow = FALSE,
                               !.at = "BeforeFirstRow",
                               !.active = FALSE],
         calls |-> fin.calls]
  IN rest(finalize(cu))

cleanup(cu) ==
  LET rest(fin) ==
        [cu |-> [fin.cu EXCEPT !.rInf = <<>>,
                               !.skippedStatus = FALSE,
                               !.skipRow = FALSE,
                               !.at = "BeforeFirstRow",
                               !.active = FALSE],
         calls |-> fin.calls]
  IN rest(finalize(cu))

\* a switch on stp that takes what it does not know for text
storageClassTypeText(stp) ==
  CASE stp = "SQLITE_INTEGER" -> "Int"
    [] stp = "SQLITE_FLOAT"   -> "Double"
    [] stp = "SQLITE_BLOB"    -> "ByteArray"
    [] OTHER                  -> "String"

\* the switch on stp of initColumns
storageClassType(stp) ==
  CASE stp = "SQLITE_INTEGER" -> "Int"
    [] stp = "SQLITE_FLOAT"   -> "Double"
    [] stp = "SQLITE_BLOB"    -> "ByteArray"
    [] stp = "SQLITE_TEXT"    -> "String"
    [] OTHER                  -> "Invalid"

\* the body of the loop of initColumns: the field of one result column,
\* stp its storage class or -1
columnField(col, stp) ==
  [name |-> removeChar(col.name, "\""),
   type |-> IF col.decl # <<>>
              THEN qGetColumnType(col.decl)
              ELSE storageClassType(stp),
   sqlType |-> stp]

initColumns(cu, emptyResultset, row) ==
  LET nCols == column_count(cu.stmt)
  IN IF nCols <= 0 THEN cu
     ELSE [cu EXCEPT !.rInf = @ \o [i \in 1..nCols |->
                                      columnField(QueryTable[cu.stmt].cols[i],
                                            IF emptyResultset THEN "-1" ELSE row[i].cls)]]

\* the switch on sqlite3_column_type of fetchNext
decode(ev, policy) ==
  CASE ev.cls = "SQLITE_BLOB"    -> Variant("ByteArray", FALSE, ev.v)
    [] ev.cls = "SQLITE_INTEGER" -> Variant("LongLong", FALSE, ev.v)
    [] ev.cls = "SQLITE_FLOAT"   ->
         (CASE policy = "LowPrecisionInt32" -> Variant("Int", FALSE, ev.v \div 10)
            [] policy = "LowPrecisionInt64" -> Variant("LongLong", FALSE, ev.v \div 10)
            [] OTHER -> Variant("Double", FALSE, ev.v))
    [] ev.cls = "SQLITE_NULL"    -> Variant("String", TRUE, 0)
    [] OTHER                     -> Variant("String", FALSE, ev.v)

\* sqlite3_reset after a failed step answers that step's error code
resetAfter(stepRes) == stepRes

\* a failed step reported with the category of a statement error
fetchErrorAsStatement(cu, errorCode) ==
  [cu EXCEPT !.lastError = qMakeError("Unable to fetch row", "StatementError", errorCode),
             !.at = "AfterLastRow"]

\* a failed step that leaves the position where it was
fetchErrorKeepsPosition(cu, errorCode) ==
  [cu EXCEPT !.lastError = qMakeError("Unable to fetch row", "ConnectionError", errorCode)]

\* what fetchNext stores when sqlite3_step answered an error
fetchError(cu, errorCode) ==
  [cu EXCEPT !.lastError = qMakeError("Unable to fetch row", "ConnectionError", errorCode),
             !.at = "AfterLastRow"]

fetchNext(cu, idx, initialFetch, f) ==
  LET step == Call("sqlite3_step", f.res, 0, "")
      \* case SQLITE_ROW, c2 the cursor once the columns are known
      gotRow(c2, decoded) ==
        IF idx < 0 /\ ~initialFetch
          THEN [cu |-> c2, ret |-> TRUE, row |-> <<>>, path |-> "row",
                calls |-> <<step>>]
          ELSE [cu |-> IF initialFetch
                         THEN [c2 EXCEPT !.firstRow =
                                 [i \in 1..Len(c2.firstRow) |->
                                    IF i <= Len(decoded) THEN decoded[i]
                                    ELSE c2.firstRow[i]]]
                         ELSE c2,
                ret |-> TRUE, row |-> decoded, path |-> "row",
                calls |-> <<step>>]
      row(c2) == gotRow(c2, [i \in 1..Len(c2.rInf) |-> decode(f.row[i], f.policy)])
      \* case SQLITE_DONE
      done(c2) ==
        [cu |-> [c2 EXCEPT !.at = "AfterLastRow"],
         ret |-> FALSE, row |-> <<>>, path |-> "done",
         calls |-> <<step, Call("sqlite3_reset", "SQLITE_OK", 0, "")>>]
      \* the error cases, res what sqlite3_reset answered
      failed(c1, code, path, res) ==
        [cu |-> fetchError(c1, code),
         ret |-> FALSE, row |-> <<>>, path |-> path,
         calls |-> <<step, Call("sqlite3_reset", res, 0, "")>>]
      \* c1 the cursor after the lookahead bookkeeping
      stepped(c1) ==
        IF c1.stmt = 0
          THEN [cu |-> [c1 EXCEPT !.lastError =
                                    QSqlError("Unable to fetch row", "ConnectionError"),
                                  !.at = "AfterLastRow"],
                ret |-> FALSE, row |-> <<>>, path |-> "nostmt", calls |-> <<>>]
        ELSE IF f.res = "SQLITE_ROW"
          THEN row(IF c1.rInf = <<>> THEN initColumns(c1, FALSE, f.row) ELSE c1)
        ELSE IF f.res = "SQLITE_DONE"
          THEN done(IF c1.rInf = <<>> THEN initColumns(c1, TRUE, <<>>) ELSE c1)
        ELSE IF f.res \in {"SQLITE_CONSTRAINT", "SQLITE_ERROR"}
          THEN failed(c1, resetAfter(f.res), "error", resetAfter(f.res))
        ELSE \* SQLITE_MISUSE, SQLITE_BUSY, default
             failed(c1, f.res, "busy", resetAfter(f.res))
  IN
  IF cu.skipRow
    THEN \* already fetched
         [cu |-> [cu EXCEPT !.skipRow = FALSE], ret |-> cu.skippedStatus,
          row |-> cu.firstRow, path |-> "skip", calls |-> <<>>]
    ELSE stepped([cu EXCEPT !.skipRow = initialFetch,
                            !.firstRow = IF initialFetch
                                           THEN [i \in 1..column_count(cu.stmt) |-> Invalid]
                                           ELSE @])

(***************************************************************************)
(* A sqlite3* value is modelled by what the engine holds behind it:          *)
(*   "null"      the null pointer                                            *)
(*   "open"      the connection the driver has open now                      *)
(*   "sick"      what a failed sqlite3_open_v2 left: allocated, unusable     *)
(*   "leaked"    a connection sqlite3_close refused to close: still open     *)
(*   "released"  a connection sqlite3_close closed: freed memory             *)
(* A copy of the pointer (SQLiteResultPrivate::access) follows its referent: *)
(* when the driver closes its connection every copy of "open" becomes the    *)
(* released or the leaked handle, without the code touching the copy.        *)
(***************************************************************************)
Handles == {"null", "open", "sick", "leaked", "released"}

\* A released handle is freed memory: the call may see garbage and refuse
\* with SQLITE_MISUSE, or see a connection that now lives at that address.
ReleasedOutcomes == {"SQLITE_MISUSE", "works"}

\* sqlite3_prepare16_v2 on handle state hstate for entry qi of QueryTable
prepare_v2(hstate, ub, qi) ==
  IF hstate \in {"null", "sick"} THEN "SQLITE_MISUSE"
  ELSE IF hstate = "released" /\ ub = "SQLITE_MISUSE" THEN "SQLITE_MISUSE"
  ELSE QueryTable[qi].compile

\* a test of the remainder that lets any text through
hasRemainderNever(pzTail) == FALSE

\* the test prepare makes of the text after the first statement
hasRemainder(pzTail) == trimmed(pzTail) # <<>>

\* a guard that looks at the error flag alone
notUsableOnError(isOpen, isOpenError) == isOpenError

\* the guard of prepare and of the transaction functions:
\* !isOpen() || isOpenError()
notUsable(isOpen, isOpenError) == ~isOpen \/ isOpenError

prepare(cu, isOpen, isOpenError, qi, hstate, ub) ==
  LET \* the early returns that drop the statement just compiled
      dropped(fin, path, calls) ==
        [cu |-> fin.cu, ret |-> FALSE, path |-> path, calls |-> calls \o fin.calls]
      \* c1 the cursor after cleanup() and setSelect(false), res the result
      \* of the compilation, stmt the statement handle it left
      compiled(c1, calls0, res, stmt) ==
        IF res # "SQLITE_OK"
          THEN dropped(finalize([c1 EXCEPT !.stmt = stmt, !.lastError =
                          qMakeError("Unable to execute statement", "StatementError", res)]),
                       "compile",
                       calls0 \o <<Call("sqlite3_prepare16_v2", res, 0, hstate)>>)
        ELSE IF hasRemainder(QueryTable[qi].tail)
          THEN dropped(finalize([c1 EXCEPT !.stmt = stmt, !.lastError =
                          qMakeError("Unable to execute multiple statements at a time",
                                     "StatementError", "SQLITE_MISUSE")]),
                       "tail",
                       calls0 \o <<Call("sqlite3_prepare16_v2", res,
                                        IF stmt = 0 THEN 0 ELSE 1, hstate)>>)
        ELSE [cu |-> [c1 EXCEPT !.stmt = stmt], ret |-> TRUE, path |-> "ok",
              calls |-> calls0 \o <<Call("sqlite3_prepare16_v2", res,
                                         IF stmt = 0 THEN 0 ELSE 1, hstate)>>]
      compile(c1, calls0, res) ==
        compiled(c1, calls0, res,
                 IF res = "SQLITE_OK" /\ ~QueryTable[qi].empty THEN qi ELSE 0)
      cleaned(cl) ==
        compile([cl.cu EXCEPT !.select = FALSE], cl.calls, prepare_v2(hstate, ub, qi))
  IN
  IF notUsable(isOpen, isOpenError)
    THEN [cu |-> cu, ret |-> FALSE, path |-> "closed", calls |-> <<>>]
    ELSE cleaned(cleanup(cu))

(***************************************************************************)
(* boundValues(): the values the caller bound before exec.                   *)
(***************************************************************************)
V(t) == Variant(t, FALSE, 1)

BoundValueLists == {
  <<>>,
  <<V("Int")>>,
  <<V("Double"), V("String")>>,
  <<V("UInt"), V("LongLong")>>,
  <<V("Bool"), Variant("String", TRUE, 0)>>,
  <<V("ByteArray"), V("Int"), V("Int")>> }

\* the bind call exec picks for a value
bindCall(value) ==
  IF value.null THEN "sqlite3_bind_null"
  ELSE CASE value.t = "ByteArray" -> "sqlite3_bind_blob"
         [] value.t = "Int"       -> "sqlite3_bind_int"
         [] value.t = "Double"    -> "sqlite3_bind_double"
         [] value.t \in {"UInt", "LongLong"} -> "sqlite3_bind_int64"
         [] value.t = "String"    -> "sqlite3_bind_text16"
         [] OTHER                 -> "sqlite3_bind_text16"

bindLifetime(value) ==
  IF value.null THEN ""
  ELSE IF value.t \in {"ByteArray", "String"} THEN "SQLITE_STATIC"
  ELSE IF value.t \in {"Int", "Double", "UInt", "LongLong"} THEN ""
  ELSE "SQLITE_TRANSIENT"

\* what the engine answers during one exec of stmt with n values bound: the
\* reset fails, the bind of parameter `at` fails, or neither and the step
\* answers f (no bind and no step is asked for when the counts differ)
ExecInputs(stmt, n, steps) ==
  {[kind |-> "resetFails", at |-> 0, f |-> DoneInput] : x \in {y \in {stmt} : y # 0}}
    \cup {[kind |-> "bindFails", at |-> i, f |-> DoneInput] :
            i \in (IF n = bind_parameter_count(stmt) THEN 1..n ELSE {})}
    \cup {[kind |-> "fetch", at |-> 0, f |-> f] :
            f \in (IF n = bind_parameter_count(stmt) /\ stmt # 0
                     THEN FetchInputs(stmt, steps) ELSE {DoneInput})}

\* a comparison that lets surplus values through
countsAgreeAtLeast(paramCount, values) == paramCount <= Len(values)

\* the comparison exec makes before it binds
countsAgree(paramCount, values) == paramCount = Len(values)

exec(cu, values, e) ==
  LET reset(res) == Call("sqlite3_reset", res, 0, "")
      \* the binds made when the bind of parameter failAt fails (0: none does)
      binds(failAt, nBinds) ==
        [i \in 1..nBinds |->
           Call(bindCall(values[i]),
                IF i = failAt THEN "SQLITE_TOOBIG" ELSE "SQLITE_OK",
                i, bindLifetime(values[i]))]
      dropped(fin, path, calls) ==
        [cu |-> fin.cu, ret |-> FALSE, row |-> <<>>, path |-> path,
         calls |-> calls \o fin.calls]
      \* c1 the cursor after the lookahead fetch fn
      fetched(c1, fn, calls) ==
        IF isValid(c1.lastError)
          THEN [cu |-> [c1 EXCEPT !.select = FALSE, !.active = FALSE],
                ret |-> FALSE, row |-> fn.row, path |-> fn.path,
                calls |-> calls \o fn.calls]
          ELSE [cu |-> [c1 EXCEPT !.select = (c1.rInf # <<>>), !.active = TRUE],
                ret |-> TRUE, row |-> fn.row, path |-> fn.path,
                calls |-> calls \o fn.calls]
      lookahead(fn, calls) ==
        fetched([fn.cu EXCEPT !.skippedStatus = fn.ret], fn, calls)
      \* c0 the cursor after the resets at the head of exec
      run(c0, res0, paramCount, failAt) ==
        IF res0 # "SQLITE_OK"
          THEN dropped(finalize([c0 EXCEPT !.lastError =
                          qMakeError("Unable to reset statement", "StatementError", res0)]),
                       "reset", <<reset(res0)>>)
        ELSE IF countsAgree(paramCount, values)
          THEN IF failAt # 0
                 THEN dropped(finalize([c0 EXCEPT !.lastError =
                                 qMakeError("Unable to bind parameters", "StatementError",
                                            "SQLITE_TOOBIG")]),
                              "bind", <<reset(res0)>> \o binds(failAt, failAt))
                 ELSE lookahead(fetchNext(c0, 0, TRUE, e.f),
                                <<reset(res0)>> \o binds(0, paramCount))
        ELSE [cu |-> [c0 EXCEPT !.lastError =
                        QSqlError("Parameter count mismatch", "StatementError")],
              ret |-> FALSE, row |-> <<>>, path |-> "mismatch",
              calls |-> <<reset(res0)>>]
  IN run([cu EXCEPT !.skippedStatus = FALSE,
                    !.skipRow = FALSE,
                    !.rInf = <<>>,
                    !.at = "BeforeFirstRow",
                    !.lastError = NoError],
         IF cu.stmt # 0 /\ e.kind = "resetFails" THEN "SQLITE_IOERR" ELSE "SQLITE_OK",
         bind_parameter_count(cu.stmt),
         IF e.kind = "bindFails" /\ e.at \in 1..bind_parameter_count(cu.stmt)
           THEN e.at ELSE 0)

\* a gotoNext that ignores the row exec fetched ahead
gotoNextStepping(cu, idx, f) ==
  fetchNext([cu EXCEPT !.skipRow = FALSE], idx, FALSE, f)

gotoNext(cu, idx, f) == fetchNext(cu, idx, FALSE, f)

(***************************************************************************)
(* SQLiteDriver: the connection.                                             *)
(***************************************************************************)
\* the operation log's entry of a native call made for cursor c (0: none)
Tag(calls, c) ==
  [i \in 1..Len(calls) |->
     [f |-> calls[i].f, r |-> calls[i].r, n |-> calls[i].n, a |-> calls[i].a, c |-> c]]

CountCalls(calls, f) == Cardinality({i \in 1..Len(calls) : calls[i].f = f})

\* statements the engine allocated less those it freed, over a run of calls
liveDelta(calls) ==
  Cardinality({i \in 1..Len(calls) :
                 calls[i].f = "sqlite3_prepare16_v2" /\ calls[i].n = 1})
    - CountCalls(calls, "sqlite3_finalize")

\* a close that leaves the statements of its results alone
finalizeNone(rs, cs) == [cur |-> cs, calls |-> <<>>]

\* the foreach of close: finalize every tracked result, in list order
RECURSIVE finalizeAll(_, _)
finalizeAll(rs, cs) ==
  LET join(c, fin, rest) ==
        [cur |-> rest.cur, calls |-> Tag(fin.calls, c) \o rest.calls]
      one(c, fin) ==
        join(c, fin, finalizeAll(Tail(rs), [cs EXCEPT ![c] = fin.cu]))
  IN IF rs = <<>> THEN [cur |-> cs, calls |-> <<>>]
     ELSE one(Head(rs), finalize(cs[Head(rs)]))

\* sqlite3_close: a no-op on null, refused while statements are outstanding
\* or when the engine says so
sqlite3_close(h, live, closeRes) ==
  IF h = "null" THEN "SQLITE_OK"
  ELSE IF live > 0 THEN "SQLITE_BUSY"
  ELSE closeRes

CloseResults == {"SQLITE_OK", "SQLITE_BUSY"}

\* the copy of a handle once sqlite3_close has dealt with the handle h
referent(cu, h, fate) ==
  IF h # "null" /\ cu.access = h THEN [cu EXCEPT !.access = fate] ELSE cu

\* a close that gives up when the engine refuses to close
closeUnlessRefused(d, cs, e, closeRes) ==
  IF d.isOpen /\ closeRes = "SQLITE_OK"
    THEN [drv |-> [d EXCEPT !.access = "null", !.isOpen = FALSE, !.isOpenError = FALSE],
          cur |-> [c \in DOMAIN cs |->
                     referent([cs[c] EXCEPT !.stmt = 0], d.access, "released")],
          eng |-> [e EXCEPT !.liveStmts = 0],
          calls |-> Tag(<<Call("sqlite3_close", "SQLITE_OK", 0, "")>>, 0)]
    ELSE [drv |-> d, cur |-> cs, eng |-> e,
          calls |-> IF d.isOpen
                      THEN Tag(<<Call("sqlite3_close", closeRes, 0, "")>>, 0)
                      ELSE <<>>]

close(d, cs, e, closeRes) ==
  LET closed(fa, live, res) ==
        [drv |-> [d EXCEPT !.lastError =
                             IF res # "SQLITE_OK"
                               THEN qMakeError("Error closing database",
                                               "ConnectionError", NoCode)
                               ELSE @,
                           !.access = "null",
                           !.isOpen = FALSE,
                           !.isOpenError = FALSE],
         cur |-> [c \in DOMAIN fa.cur |->
                    referent(fa.cur[c], d.access,
                             IF res = "SQLITE_OK" THEN "released" ELSE "leaked")],
         eng |-> [e EXCEPT !.liveStmts = live],
         calls |-> fa.calls \o Tag(<<Call("sqlite3_close", res, 0, "")>>, 0)]
      finalized(fa, live) == closed(fa, live, sqlite3_close(d.access, live, closeRes))
      results(fa) == finalized(fa, e.liveStmts + liveDelta(fa.calls))
  IN IF d.isOpen
       THEN results(finalizeAll(d.results, cs))
       ELSE [drv |-> d, cur |-> cs, eng |-> e, calls |-> <<>>]

\* the connection options open looks at, blanks removed and split at ';'
DefaultTimeOut == 5000

Opt(key, val, ok) == [key |-> key, val |-> val, ok |-> ok]

OptionLists == {
  <<>>,
  <<Opt("QSQLITE_BUSY_TIMEOUT=", 100, TRUE)>>,
  <<Opt("QSQLITE_BUSY_TIMEOUT=", 0, FALSE), Opt("QSQLITE_OPEN_READONLY", 0, FALSE)>>,
  <<Opt("QSQLITE_ENABLE_SHARED_CACHE", 0, FALSE), Opt("QSQLITE_UNKNOWN", 0, FALSE)>> }

Max(S) == CHOOSE x \in S : \A y \in S : y <= x

timeOutOf(opts) ==
  LET set == {i \in 1..Len(opts) : opts[i].key = "QSQLITE_BUSY_TIMEOUT=" /\ opts[i].ok}
  IN IF set = {} THEN DefaultTimeOut ELSE opts[Max(set)].val

openModeOf(opts) ==
  IF \E i \in 1..Len(opts) : opts[i].key = "QSQLITE_OPEN_READONLY"
    THEN "SQLITE_OPEN_READONLY"
    ELSE "SQLITE_OPEN_READWRITE|SQLITE_OPEN_CREATE"

sharedCacheOf(opts) ==
  \E i \in 1..Len(opts) : opts[i].key = "QSQLITE_ENABLE_SHARED_CACHE"

OpenResults == {"SQLITE_OK", "SQLITE_CANTOPEN"}

\* an open that does not close the connection it has
closeFirstNever(d, cs, e, closeRes) ==
  [drv |-> d, cur |-> cs, eng |-> e, calls |-> <<>>]

\* the head of open: if (isOpen()) close();
closeFirst(d, cs, e, closeRes) ==
  IF d.isOpen THEN close(d, cs, e, closeRes)
  ELSE [drv |-> d, cur |-> cs, eng |-> e, calls |-> <<>>]

open(d, cs, e, db, opts, openRes, closeRes) ==
  LET \* s0 the connection after the close() at the head of open
      opened(s0, calls) ==
        IF openRes = "SQLITE_OK"
          THEN [drv |-> [s0.drv EXCEPT !.access = "open", !.isOpen = TRUE,
                                       !.isOpenError = FALSE],
                cur |-> s0.cur,
                eng |-> s0.eng,
                ret |-> TRUE, path |-> "ok",
                calls |-> calls \o Tag(
                   <<Call("sqlite3_busy_timeout", "SQLITE_OK", timeOutOf(opts), ""),
                     Call("installSQLiteExtension", "SQLITE_OK", 0, "")>>, 0)]
          ELSE \* the engine leaves a handle that cannot be used
               [drv |-> [s0.drv EXCEPT !.access = "sick",
                                       !.lastError = qMakeError("Error opening database",
                                                                "ConnectionError", NoCode),
                                       !.isOpenError = TRUE,
                                       !.isOpen = FALSE],
                cur |-> s0.cur,
                eng |-> s0.eng,
                ret |-> FALSE, path |-> "failed", calls |-> calls]
      start(s0) ==
        IF db = <<>>
          THEN [drv |-> s0.drv, cur |-> s0.cur, eng |-> s0.eng, ret |-> FALSE,
                path |-> "empty", calls |-> s0.calls]
          ELSE opened(s0, s0.calls \o Tag(
                   <<Call("sqlite3_enable_shared_cache", "SQLITE_OK",
                          IF sharedCacheOf(opts) THEN 1 ELSE 0, ""),
                     Call("sqlite3_open_v2", openRes, 0, openModeOf(opts))>>, 0))
  IN start(closeFirst(d, cs, e, closeRes))

\* SQLiteResult::reset: prepare, then exec when prepare succeeded
SQLiteResult_reset(cu, isOpen, isOpenError, qi, hstate, ub, values, e) ==
  LET both(p, x) ==
        [cu |-> x.cu, ret |-> x.ret, calls |-> p.calls \o x.calls]
      prepared(p) ==
        IF ~p.ret THEN [cu |-> p.cu, ret |-> FALSE, calls |-> p.calls]
        ELSE both(p, exec(p.cu, values, e))
  IN prepared(prepare(cu, isOpen, isOpenError, qi, hstate, ub))

\* beginTransaction, commitTransaction, rollbackTransaction: a QSqlQuery on
\* a result of its own runs the control statement and is destroyed at the
\* end of the function, which takes the result off the list again
transaction(d, descr, e) ==
  LET ended(q, cl) ==
        [drv |-> IF q.ret THEN d
                 ELSE [d EXCEPT !.lastError = QSqlError(descr, "TransactionError")],
         ret |-> q.ret, path |-> IF q.ret THEN "ok" ELSE "failed",
         calls |-> q.calls \o cl.calls]
      ran(q) == ended(q, cleanup(q.cu))
  IN IF notUsable(d.isOpen, d.isOpenError)
       THEN [drv |-> d, ret |-> FALSE, path |-> "closed", calls |-> <<>>]
       ELSE ran(SQLiteResult_reset(NewCursor(d.access), d.isOpen, d.isOpenError,
                                   ControlStatement, d.access, "works", <<>>, e))

\* a removal that leaves the list as it is
removeOneNever(s, x) == s

\* QList::removeOne
RECURSIVE removeOne(_, _)
removeOne(s, x) ==
  IF s = <<>> THEN <<>>
  ELSE IF Head(s) = x THEN Tail(s)
  ELSE <<Head(s)>> \o removeOne(Tail(s), x)

(***************************************************************************)
(* The state machine.                                                        *)
(***************************************************************************)
\* The last operation: its name, cursor (0: the connection), argument (the
\* entry of QueryTable prepared, the number of values bound, the idx of
\* gotoNext, the length of the path opened, the identifier or the column a
\* function is applied to), what it returned, the branch it took, the row
\* (or the value) it produced and the native calls it made, in order.
Op(op, c, arg, ret, path, row, calls) ==
  [op |-> op, c |-> c, arg |-> arg, ret |-> ret, path |-> path, row |-> row,
   calls |-> calls]

Init ==
  /\ drv = [isOpen |-> FALSE, isOpenError |-> FALSE, access |-> "null",
            lastError |-> NoError, results |-> <<>>]
  /\ cur = [c \in Cursors |-> Dead]
  /\ eng = [liveStmts |-> 0]
  /\ last = Op("init", 0, 0, TRUE, "", <<>>, <<>>)

Paths == {<<>>, <<"f","e","e","d","s",".","d","b">>}

Open(db, opts, openRes, closeRes) ==
  \E r \in {open(drv, cur, eng, db, opts, openRes, closeRes)} :
     /\ drv' = r.drv
     /\ cur' = r.cur
     /\ eng' = r.eng
     /\ last' = Op("open", 0, Len(db), r.ret, r.path, <<>>, r.calls)

Close(closeRes) ==
  \E r \in {close(drv, cur, eng, closeRes)} :
     /\ drv' = r.drv
     /\ cur' = r.cur
     /\ eng' = r.eng
     /\ last' = Op("close", 0, 0, TRUE, IF drv.isOpen THEN "closed" ELSE "noop",
                   <<>>, r.calls)

CreateResult(c) ==
  /\ ~cur[c].alive
  /\ cur' = [cur EXCEPT ![c] = NewCursor(drv.access)]
  /\ drv' = [drv EXCEPT !.results = Append(@, c)]
  /\ last' = Op("createResult", c, 0, TRUE, "", <<>>, <<>>)
  /\ UNCHANGED eng

DestroyResult(c) ==
  /\ cur[c].alive
  /\ \E cl \in {cleanup(cur[c])} :
        /\ drv' = [drv EXCEPT !.results = removeOne(@, c)]
        /\ cur' = [cur EXCEPT ![c] = Dead]
        /\ eng' = [eng EXCEPT !.liveStmts = @ + liveDelta(cl.calls)]
        /\ last' = Op("destroyResult", c, 0, TRUE, "", <<>>, Tag(cl.calls, c))

Prepare(c, qi, ub) ==
  /\ cur[c].alive
  /\ \E r \in {prepare(cur[c], drv.isOpen, drv.isOpenError, qi, cur[c].access, ub)} :
        /\ cur' = [cur EXCEPT ![c] = r.cu]
        /\ eng' = [eng EXCEPT !.liveStmts = @ + liveDelta(r.calls)]
        /\ last' = Op("prepare", c, qi, r.ret, r.path, <<>>, Tag(r.calls, c))
  /\ UNCHANGED drv

Exec(c, values, e) ==
  /\ cur[c].alive
  /\ \E r \in {exec(cur[c], values, e)} :
        /\ cur' = [cur EXCEPT ![c] = r.cu]
        /\ eng' = [eng EXCEPT !.liveStmts = @ + liveDelta(r.calls)]
        /\ last' = Op("exec", c, Len(values), r.ret, r.path, r.row, Tag(r.calls, c))
  /\ UNCHANGED drv

GotoNext(c, idx, f) ==
  /\ cur[c].alive
  /\ \E r \in {gotoNext(cur[c], idx, f)} :
        /\ cur' = [cur EXCEPT ![c] = r.cu]
        /\ last' = Op("gotoNext", c, idx, r.ret, r.path, r.row, Tag(r.calls, c))
  /\ UNCHANGED <<drv, eng>>

Transaction(op, descr, e) ==
  /\ \E r \in {transaction(drv, descr, e)} :
        /\ drv' = r.drv
        /\ eng' = [eng EXCEPT !.liveStmts = @ + liveDelta(r.calls)]
        /\ last' = Op(op, 0, 0, r.ret, r.path, <<>>, Tag(r.calls, 0))
  /\ UNCHANGED cur

BeginTransaction(e) ==
  Transaction("beginTransaction", "Unable to begin transaction", e)

CommitTransaction(e) ==
  Transaction("commitTransaction", "Unable to commit transaction", e)

RollbackTransaction(e) ==
  Transaction("rollbackTransaction", "Unable to rollback transaction", e)

(***************************************************************************)
(* What the callers and the engine may do in a behaviour: the cursors in     *)
(* use, the SQL texts prepared, the value lists bound, the results a step    *)
(* answers, and what the native open and close answer.                       *)
(***************************************************************************)
ConnSteps(P) ==
  \/ \E db \in Paths :
       \E opts \in (IF db = <<>> THEN {<<>>} ELSE P.options),
          openRes \in (IF db = <<>> THEN {"SQLITE_OK"} ELSE P.opens),
          closeRes \in (IF drv.isOpen THEN P.closes ELSE {"SQLITE_OK"}) :
         Open(db, opts, openRes, closeRes)
  \/ \E closeRes \in (IF drv.isOpen THEN P.closes ELSE {"SQLITE_OK"}) :
       Close(closeRes)
  \/ \E c \in P.cs : CreateResult(c)
  \/ \E c \in P.cs : DestroyResult(c)
  \/ \E c \in P.cs, qi \in P.queries :
       \E ub \in (IF cur[c].access = "released"
                    THEN ReleasedOutcomes ELSE {"works"}) : Prepare(c, qi, ub)

QuerySteps(P) ==
  \/ \E c \in P.cs, values \in P.values :
       \E e \in ExecInputs(cur[c].stmt, Len(values), P.steps) : Exec(c, values, e)
  \/ \E c \in P.cs, idx \in P.idxs :
       \E f \in FetchInputs(cur[c].stmt, P.steps) : GotoNext(c, idx, f)

\* one cursor under a connection whose native open and close succeed
CursorProfile ==
  [cs |-> OneCursor, queries |-> Queries, values |-> BoundValueLists,
   steps |-> StepResults, idxs |-> {-1, 0}, options |-> OptionLists,
   opens |-> {"SQLITE_OK"}, closes |-> {"SQLITE_OK"}]

Next == ConnSteps(CursorProfile) \/ QuerySteps(CursorProfile)

Spec == Init /\ [][Next]_vars

\* several cursors that are created, prepared and destroyed under a
\* connection whose native open and close may fail
ConnProfile ==
  [cs |-> Cursors, queries |-> {1}, options |-> {<<>>},
   opens |-> OpenResults, closes |-> CloseResults]

NextConn == ConnSteps(ConnProfile)

SpecConn == Init /\ [][NextConn]_vars

TxnSteps(P) ==
  \/ \E e \in ExecInputs(ControlStatement, 0, P.steps) : BeginTransaction(e)
  \/ \E e \in ExecInputs(ControlStatement, 0, P.steps) : CommitTransaction(e)
  \/ \E e \in ExecInputs(ControlStatement, 0, P.steps) : RollbackTransaction(e)

\* one cursor and the transaction functions under a connection whose native
\* open and close may fail
TxnProfile ==
  [cs |-> OneCursor, queries |-> {1, 3}, options |-> {<<>>},
   steps |-> {"SQLITE_DONE", "SQLITE_BUSY", "SQLITE_ERROR"},
   opens |-> OpenResults, closes |-> CloseResults]

NextTxn == ConnSteps(TxnProfile) \/ TxnSteps(TxnProfile)

SpecTxn == Init /\ [][NextTxn]_vars

\* the identifiers handed to escapeIdentifier
IdentChars == {"a", ".", Quote}

Identifiers == UNION {[1..n -> IdentChars] : n \in 0..MaxIdentLen}

\* escapeIdentifier applied to the identifier a caller holds
EscapeIdentifier ==
  /\ last.op = "identifier"
  /\ last' = Op("escapeIdentifier", 0, last.arg, TRUE, "",
                escapeIdentifier(last.arg), <<>>)
  /\ UNCHANGED <<drv, cur, eng>>

toUpperChar(ch) ==
  IF \E i \in 1..Len(LowerChars) : LowerChars[i] = ch
    THEN UpperChars[CHOOSE i \in 1..Len(LowerChars) : LowerChars[i] = ch]
    ELSE ch

\* the declared type names a statement's columns can carry, in lower case
TypeNames == {
  <<"i","n","t","e","g","e","r">>, <<"i","n","t">>, <<"d","o","u","b","l","e">>,
  <<"f","l","o","a","t">>, <<"r","e","a","l">>, <<"n","u","m","e","r","i","c">>,
  <<"n","u","m","e","r","i","c","9">>, <<"b","l","o","b">>, <<"t","e","x","t">>,
  <<"i","n","t","e">>, <<"x","i","n","t">>, <<>> }

\* a name in every mix of upper and lower case
Spellings(name) ==
  {[i \in 1..Len(name) |-> IF up[i] THEN toUpperChar(name[i]) ELSE name[i]] :
     up \in [1..Len(name) -> BOOLEAN]}

\* sqlite3_column_type, and the -1 initColumns takes for an empty result
StorageClasses == {"SQLITE_INTEGER", "SQLITE_FLOAT", "SQLITE_BLOB", "SQLITE_TEXT",
                   "SQLITE_NULL", "-1"}

\* the result columns the engine can describe: declared `decl` (a spelling
\* of `name`), with a value of storage class stp
Columns ==
  UNION {{[name |-> name, decl |-> decl, stp |-> stp] :
            decl \in Spellings(name), stp \in StorageClasses} : name \in TypeNames}

\* one pass of the loop of initColumns for the column at hand
ColumnField ==
  /\ last.op = "column"
  /\ last' = Op("columnField", 0, last.arg, TRUE, "",
                <<columnField([name |-> <<"c">>, decl |-> last.arg.decl],
                              last.arg.stp)>>, <<>>)
  /\ UNCHANGED <<drv, cur, eng>>

\* The functions that look at no state: a behaviour starts with an
\* identifier or a column at hand and applies the function to it.
InitFn ==
  /\ drv = [isOpen |-> FALSE, isOpenError |-> FALSE, access |-> "null",
            lastError |-> NoError, results |-> <<>>]
  /\ cur = [c \in Cursors |-> Dead]
  /\ eng = [liveStmts |-> 0]
  /\ last \in {Op("identifier", 0, identifier, TRUE, "", <<>>, <<>>) :
                 identifier \in Identifiers}
              \cup {Op("column", 0, col, TRUE, "", <<>>, <<>>) : col \in Columns}

NextFn == EscapeIdentifier \/ ColumnField

SpecFn == InitFn /\ [][NextFn]_vars

(***************************************************************************)
(* Properties.                                                               *)
(***************************************************************************)
Steps(calls) == CountCalls(calls, "sqlite3_step")

\* the branches of exec that ran the lookahead fetch
LookaheadPaths == {"row", "done", "error", "busy", "nostmt"}

\* C1: the gotoNext that follows an exec which ran its lookahead returns the
\* outcome of that lookahead and, when it fetched a row, the values of that
\* row (invalid values otherwise), and makes no sqlite3_step, so the two
\* together step the statement once; the gotoNext after that one does not
\* deliver the lookahead again and steps the statement the cursor holds.
C1_LookaheadDeliveredOnce ==
  [][(last'.op = "gotoNext" /\ last'.c = last.c) =>
       /\ (last.op = "exec" /\ last.path \in LookaheadPaths) =>
             /\ Steps(last'.calls) = 0
             /\ last'.ret = (last.path = "row")
             /\ IF last.path = "row"
                  THEN last'.row = last.row /\ last.row # <<>>
                  ELSE \A i \in 1..Len(last'.row) : last'.row[i] = Invalid
             /\ Steps(last.calls) + Steps(last'.calls)
                  = (IF last.path = "nostmt" THEN 0 ELSE 1)
       /\ (last.op = "gotoNext" /\ last.path = "skip") =>
             /\ last'.path # "skip"
             /\ cur[last.c].stmt # 0 => Steps(last'.calls) = 1
    ]_vars

\* a first gotoNext has delivered a row that exec fetched ahead
C1_Witness ==
  /\ last.op = "gotoNext" /\ last.path = "skip"
  /\ last.ret /\ last.row # <<>> /\ last.calls = <<>>
  /\ cur[last.c].stmt # 0

IndexOf(calls, f) == CHOOSE i \in 1..Len(calls) : calls[i].f = f

\* C2: when close (or the close at the head of open) runs on an open
\* connection, every result in the tracked list that holds a statement has
\* it finalized by a sqlite3_finalize made before the sqlite3_close, and
\* holds none afterwards.
C2_CloseFinalizesTracked ==
  [][(last'.op \in {"close", "open"} /\ drv.isOpen) =>
       /\ CountCalls(last'.calls, "sqlite3_close") = 1
       /\ \A k \in 1..Len(drv.results) :
            LET c == drv.results[k] IN
            /\ cur'[c].stmt = 0
            /\ cur[c].stmt # 0 =>
                 \E i \in 1..Len(last'.calls) :
                    /\ last'.calls[i].f = "sqlite3_finalize"
                    /\ last'.calls[i].c = c
                    /\ i < IndexOf(last'.calls, "sqlite3_close")
    ]_vars

\* a close has finalized the statements of two tracked results
C2_Witness ==
  /\ last.op = "close"
  /\ CountCalls(last.calls, "sqlite3_finalize") = 2
  /\ CountCalls(last.calls, "sqlite3_close") = 1
  /\ Len(drv.results) = 2

ReportedBy(calls, f) == calls[IndexOf(calls, f)].r

\* C3: close leaves isOpen false; on a connection that is not open it makes
\* no native call and changes nothing; on an open one it drops the handle,
\* and when sqlite3_close answers an error it stores a ConnectionError.
C3_CloseAlwaysCloses ==
  [][last'.op = "close" =>
       /\ ~drv'.isOpen
       /\ ~drv.isOpen =>
            /\ last'.calls = <<>>
            /\ drv' = drv /\ cur' = cur /\ eng' = eng
       /\ drv.isOpen =>
            /\ drv'.access = "null" /\ ~drv'.isOpenError
            /\ CountCalls(last'.calls, "sqlite3_close") = 1
            /\ IF ReportedBy(last'.calls, "sqlite3_close") # "SQLITE_OK"
                 THEN drv'.lastError.type = "ConnectionError"
                 ELSE drv'.lastError = drv.lastError
    ]_vars

\* a close the engine refused has left the connection closed
C3_Witness ==
  /\ last.op = "close"
  /\ CountCalls(last.calls, "sqlite3_close") = 1
  /\ ReportedBy(last.calls, "sqlite3_close") = "SQLITE_BUSY"
  /\ ~drv.isOpen /\ drv.access = "null"
  /\ drv.lastError.type = "ConnectionError"

Held(cs) == {c \in DOMAIN cs : cs[c].alive /\ cs[c].stmt # 0}

Compiled(calls) ==
  \E i \in 1..Len(calls) : calls[i].f = "sqlite3_prepare16_v2"

\* C4: a prepare that compiles on a cursor holding a statement makes its
\* sqlite3_finalize before its sqlite3_prepare16_v2, and after every
\* operation the statements the engine has allocated and not freed are
\* exactly those the live cursors hold, one at most per cursor.
C4_RePrepareFinalizesFirst ==
  [][/\ eng'.liveStmts = Cardinality(Held(cur'))
     /\ (last'.op = "prepare" /\ Compiled(last'.calls)) =>
          /\ CountCalls(last'.calls, "sqlite3_prepare16_v2") = 1
          /\ cur[last'.c].stmt # 0 =>
               /\ last'.calls[1].f = "sqlite3_finalize"
               /\ IndexOf(last'.calls, "sqlite3_prepare16_v2") > 1
          /\ (~last'.ret) => cur'[last'.c].stmt = 0
    ]_vars

\* a cursor that held a statement has been prepared again with success
C4_Witness ==
  /\ last.op = "prepare" /\ last.ret
  /\ Len(last.calls) = 2
  /\ last.calls[1].f = "sqlite3_finalize"
  /\ last.calls[2].f = "sqlite3_prepare16_v2"
  /\ cur[last.c].stmt # 0
  /\ eng.liveStmts = 1

BindCalls(calls) ==
  {i \in 1..Len(calls) :
     calls[i].f \in {"sqlite3_bind_null", "sqlite3_bind_blob", "sqlite3_bind_int",
                     "sqlite3_bind_double", "sqlite3_bind_int64",
                     "sqlite3_bind_text16"}}

\* C5: an exec with a number of values other than the number of
\* placeholders of the statement the cursor holds returns false with a
\* StatementError and makes no bind call and no sqlite3_step; unless the
\* reset at its head failed, the error is the parameter count mismatch.
C5_ParameterCountMismatch ==
  [][(/\ last'.op = "exec"
      /\ cur[last'.c].stmt # 0
      /\ last'.arg # QueryTable[cur[last'.c].stmt].nParams) =>
       /\ ~last'.ret
       /\ cur'[last'.c].lastError.type = "StatementError"
       /\ BindCalls(last'.calls) = {}
       /\ Steps(last'.calls) = 0
       /\ last'.calls[1].r = "SQLITE_OK" =>
            /\ last'.path = "mismatch"
            /\ cur'[last'.c].lastError.descr = "Parameter count mismatch"
    ]_vars

\* three values have been refused by a statement of two placeholders
C5_Witness ==
  /\ last.op = "exec" /\ last.path = "mismatch" /\ last.arg = 3
  /\ cur[last.c].stmt # 0
  /\ QueryTable[cur[last.c].stmt].nParams = 2
  /\ cur[last.c].lastError.descr = "Parameter count mismatch"

\* C6: a prepare made while the connection is not open returns false and
\* leaves a StatementError in the cursor's lastError.
C6_PrepareClosedSetsError ==
  [][(last'.op = "prepare" /\ ~drv.isOpen) =>
       /\ ~last'.ret
       /\ cur'[last'.c].lastError.type = "StatementError"
    ]_vars

\* a prepare has been refused on a closed connection
C6_Witness ==
  /\ last.op = "prepare" /\ last.path = "closed" /\ ~last.ret
  /\ ~drv.isOpen
  /\ cur[last.c].lastError = NoError

\* C7: a prepare on an open connection fails exactly when the compilation
\* fails or the text after the first statement is not blank; it then stores
\* a StatementError (with the code SQLITE_MISUSE for the second statement,
\* the code of the compilation otherwise) and the cursor holds no statement;
\* a text followed by blanks only is accepted.
C7_OneStatementPerPrepare ==
  [][(last'.op = "prepare" /\ Compiled(last'.calls)) =>
       LET q   == QueryTable[last'.arg]
           res == ReportedBy(last'.calls, "sqlite3_prepare16_v2")
           cu  == cur'[last'.c]
           blank == \A i \in 1..Len(q.tail) : q.tail[i] \in {" ", "\t", "\n", "\r"}
       IN IF res # "SQLITE_OK"
            THEN /\ ~last'.ret /\ cu.stmt = 0
                 /\ cu.lastError.type = "StatementError"
                 /\ cu.lastError.code = res
          ELSE IF ~blank
            THEN /\ ~last'.ret /\ cu.stmt = 0
                 /\ cu.lastError.type = "StatementError"
                 /\ cu.lastError.code = "SQLITE_MISUSE"
                 /\ cu.lastError.descr = "Unable to execute multiple statements at a time"
          ELSE /\ last'.ret
               /\ cu.stmt = (IF q.empty THEN 0 ELSE last'.arg)
    ]_vars

\* a text of two statements has been refused and its statement dropped
C7_Witness ==
  /\ last.op = "prepare" /\ last.path = "tail" /\ ~last.ret
  /\ cur[last.c].stmt = 0
  /\ cur[last.c].lastError.code = "SQLITE_MISUSE"
  /\ CountCalls(last.calls, "sqlite3_finalize") = 1

\* the branches of the lookahead fetch that store an error
ErrorPaths == {"error", "busy", "nostmt"}

\* C8: an exec that ran its lookahead returns false and leaves the cursor
\* neither active nor a select when the lookahead stored an error;
\* otherwise it returns true and leaves the cursor active, and a select
\* exactly when the column metadata is not empty.
C8_ExecOutcome ==
  [][(last'.op = "exec" /\ last'.path \in LookaheadPaths) =>
       LET cu == cur'[last'.c] IN
       /\ last'.ret = (last'.path \notin ErrorPaths)
       /\ (last'.path \in ErrorPaths) = (cu.lastError.type # "NoError")
       /\ IF last'.path \in ErrorPaths
            THEN ~cu.active /\ ~cu.select
            ELSE cu.active /\ cu.select = (cu.rInf # <<>>)
    ]_vars

\* an exec whose lookahead met an error has left the cursor inactive
C8_Witness ==
  /\ last.op = "exec" /\ last.path = "busy" /\ ~last.ret
  /\ ~cur[last.c].active /\ ~cur[last.c].select
  /\ cur[last.c].stmt # 0

FailedStep(calls) ==
  \E i \in 1..Len(calls) : calls[i].f = "sqlite3_step" /\ calls[i].r \in StepErrors

FalseFetch(l) ==
  \/ l.op = "gotoNext" /\ ~l.ret
  \/ l.op = "exec" /\ l.path \in LookaheadPaths \ {"row"}

\* C10: a fetch that returns false (in gotoNext or as the lookahead of exec)
\* leaves the position AfterLastRow, makes no sqlite3_finalize and leaves
\* the cursor the statement it held, resetting it right after the step when
\* it stepped it; when it failed on an error of the step or on the missing
\* statement the cursor's lastError is valid.
C10_FalseFetchIsAfterLast ==
  [][FalseFetch(last') =>
       LET cu == cur'[last'.c]
           n  == Len(last'.calls)
       IN
       /\ cu.at = "AfterLastRow"
       /\ CountCalls(last'.calls, "sqlite3_finalize") = 0
       /\ cu.stmt = cur[last'.c].stmt
       /\ eng'.liveStmts = eng.liveStmts
       /\ Steps(last'.calls) <= 1
       /\ Steps(last'.calls) = 1 =>
            /\ last'.calls[n - 1].f = "sqlite3_step"
            /\ last'.calls[n].f = "sqlite3_reset"
       /\ (last'.path \in ErrorPaths) => cu.lastError.type # "NoError"
       /\ (last'.path = "nostmt") = (Steps(last'.calls) = 0 /\ last'.path # "skip")
    ]_vars

\* a gotoNext has come to the end of the rows of a statement it keeps
C10_Witness ==
  /\ last.op = "gotoNext" /\ last.path = "done" /\ ~last.ret
  /\ cur[last.c].at = "AfterLastRow"
  /\ cur[last.c].stmt # 0

TxnOps == {"beginTransaction", "commitTransaction", "rollbackTransaction"}

NativeOpenFailed(calls) ==
  \E i \in 1..Len(calls) : calls[i].f = "sqlite3_open_v2" /\ calls[i].r # "SQLITE_OK"

\* C11: an open whose sqlite3_open_v2 fails returns false, stores a
\* ConnectionError and leaves the connection in the open-error state and not
\* open (the two flags never hold together); a prepare, beginTransaction,
\* commitTransaction or rollbackTransaction made while the connection is not
\* open or is in the open-error state returns false and makes no native call.
C11_FailedOpenRefuses ==
  [][/\ ~(drv'.isOpen /\ drv'.isOpenError)
     /\ (last'.op = "open" /\ NativeOpenFailed(last'.calls)) =>
          /\ ~last'.ret
          /\ drv'.lastError.type = "ConnectionError"
          /\ drv'.isOpenError /\ ~drv'.isOpen
     /\ (/\ last'.op \in TxnOps \cup {"prepare"}
         /\ (~drv.isOpen \/ drv.isOpenError)) =>
          /\ ~last'.ret
          /\ last'.calls = <<>>
    ]_vars

\* a commitTransaction has been refused after a failed open
C11_Witness ==
  /\ last.op = "commitTransaction" /\ ~last.ret /\ last.calls = <<>>
  /\ drv.isOpenError /\ ~drv.isOpen
  /\ drv.lastError.type = "ConnectionError"

\* C12: when the step of exec's lookahead answers SQLITE_DONE the column
\* metadata has one field per result column, none with a storage class read
\* from the engine (sqlType is -1): a column with a declared type name has
\* the type qGetColumnType gives that name, a column without one is Invalid.
C12_ZeroRowsDeclaredTypesOnly ==
  [][(last'.op = "exec" /\ last'.path = "done") =>
       LET cu == cur'[last'.c]
           q  == QueryTable[cu.stmt]
       IN
       /\ Len(cu.rInf) = Len(q.cols)
       /\ \A i \in 1..Len(q.cols) :
            /\ cu.rInf[i].sqlType = "-1"
            /\ cu.rInf[i].type = (IF q.cols[i].decl # <<>>
                                    THEN qGetColumnType(q.cols[i].decl)
                                    ELSE "Invalid")
    ]_vars

\* an exec without rows has typed an INTEGER column and one without a
\* declared type
C12_Witness ==
  /\ last.op = "exec" /\ last.path = "done" /\ last.ret
  /\ Len(cur[last.c].rInf) = 2
  /\ cur[last.c].rInf[1].type = "Int" /\ cur[last.c].rInf[1].sqlType = "-1"
  /\ cur[last.c].rInf[2].type = "Invalid" /\ cur[last.c].rInf[2].sqlType = "-1"

\* an identifier with a quote at its start and at its end
FullyQuoted(name) ==
  Len(name) >= 2 /\ name[1] = Quote /\ name[Len(name)] = Quote

\* the characters of name with every quote doubled and every dot closing one
\* quoted segment and opening the next
RECURSIVE QuoteSegments(_)
QuoteSegments(name) ==
  IF name = <<>> THEN <<>>
  ELSE (CASE Head(name) = Quote -> <<Quote, Quote>>
          [] Head(name) = "."   -> <<Quote, ".", Quote>>
          [] OTHER              -> <<Head(name)>>) \o QuoteSegments(Tail(name))

\* C13: escapeIdentifier returns the name unchanged when it is empty or has
\* a quote at both ends, and for every other name returns it with its quotes
\* doubled and each segment between dots wrapped in quotes.
C13_EscapeUnlessFullyQuoted ==
  [][last'.op = "escapeIdentifier" =>
       IF last'.arg = <<>> \/ FullyQuoted(last'.arg)
         THEN last'.row = last'.arg
         ELSE last'.row = <<Quote>> \o QuoteSegments(last'.arg) \o <<Quote>>
    ]_vars

\* a name with a quote at its start only has come back unchanged
C13_Witness ==
  /\ last.op = "escapeIdentifier"
  /\ last.arg = <<Quote, "a", ".", "a">>
  /\ last.row = last.arg

\* the classification of a declared type name written in lower case
Classified(name) ==
  CASE name \in {<<"i","n","t","e","g","e","r">>, <<"i","n","t">>} -> "Int"
    [] name \in {<<"d","o","u","b","l","e">>, <<"f","l","o","a","t">>,
                 <<"r","e","a","l">>} -> "Double"
    [] Len(name) >= 7 /\ SubSeq(name, 1, 7) = <<"n","u","m","e","r","i","c">> -> "Double"
    [] name = <<"b","l","o","b">> -> "ByteArray"
    [] OTHER -> "String"

\* C14: the field of a column with a declared type name has the type of
\* that name whatever its spelling in upper and lower case and whatever the
\* storage class of the value (integer, int: Int; double, float, real and
\* names starting with numeric: Double; blob: ByteArray; any other: String);
\* the storage class gives the type only when there is no declared name.
C14_DeclaredTypeFirst ==
  [][last'.op = "columnField" =>
       LET in == last'.arg
           fld == last'.row[1]
       IN
       /\ fld.type \in {"Int", "Double", "ByteArray", "String", "Invalid"}
       /\ in.decl # <<>> =>
            /\ fld.type = Classified(in.name)
            /\ fld.type = qGetColumnType(in.decl)
       /\ in.decl = <<>> =>
            fld.type = (CASE in.stp = "SQLITE_INTEGER" -> "Int"
                          [] in.stp = "SQLITE_FLOAT"   -> "Double"
                          [] in.stp = "SQLITE_BLOB"    -> "ByteArray"
                          [] in.stp = "SQLITE_TEXT"    -> "String"
                          [] OTHER                     -> "Invalid")
    ]_vars

\* a column declared NuMeRiC9 whose value is a text has been typed Double
C14_Witness ==
  /\ last.op = "columnField"
  /\ last.arg.decl = <<"N","u","M","e","R","i","C","9">>
  /\ last.arg.stp = "SQLITE_TEXT"
  /\ last.row[1].type = "Double"

\* the operation made a sqlite3_step that returned a row or reported the end
SteppedOk(calls) ==
  \E i \in 1..Len(calls) :
     calls[i].f = "sqlite3_step" /\ calls[i].r \in {"SQLITE_ROW", "SQLITE_DONE"}

\* C15 as stated, operation by operation: a step that returns a row or
\* reports the end leaves the columns non-empty; a prepare that compiles
\* leaves them empty; empty columns become non-empty only by such a step;
\* and non-empty columns stay until the next prepare or the destruction of
\* the cursor.
C15_ColumnsIffStepped ==
  [][\A c \in DOMAIN cur :
       /\ (last'.c = c /\ SteppedOk(last'.calls)) => cur'[c].rInf # <<>>
       /\ (last'.c = c /\ last'.op = "prepare" /\ Compiled(last'.calls)) =>
            cur'[c].rInf = <<>>
       /\ (cur[c].rInf = <<>> /\ cur'[c].rInf # <<>>) =>
            (last'.c = c /\ SteppedOk(last'.calls))
       /\ (cur[c].rInf # <<>> /\ cur'[c].rInf = <<>>) =>
            (last'.c = c /\ last'.op \in {"prepare", "destroyResult"})
    ]_vars

\* C15 as the code has it: every exec empties the columns first, as does
\* every prepare that passes the test of the connection; they are non-empty
\* after an operation exactly when, in it or since they were last emptied,
\* a step on a statement with at least one result column returned a row or
\* reported the end.  No other operation changes them, and a statement
\* without result columns never has any.
C15_ColumnsFollowSteps ==
  [][\A c \in DOMAIN cur :
       LET filled == SteppedOk(last'.calls) /\ column_count(cur[c].stmt) > 0
           had    == cur[c].rInf # <<>>
       IN
       /\ (cur'[c].rInf # <<>>) =
            (IF last'.c # c THEN had
             ELSE CASE last'.op = "exec"     -> filled
                    [] last'.op = "gotoNext" -> had \/ filled
                    [] last'.op = "prepare"  -> had /\ last'.path = "closed"
                    [] OTHER                 -> FALSE)
       /\ cur'[c].rInf # <<>> =>
            (cur'[c].rInf = cur[c].rInf \/ Len(cur'[c].rInf) = column_count(cur[c].stmt))
    ]_vars

\* an exec of a statement without result columns has stepped it to its end
\* and the columns are empty
C15_Witness ==
  /\ last.op = "exec" /\ last.path = "done" /\ last.ret
  /\ SteppedOk(last.calls)
  /\ cur[last.c].stmt # 0 /\ column_count(cur[last.c].stmt) = 0
  /\ cur[last.c].rInf = <<>>

\* the calls of an exec that failed before its lookahead: the sqlite3_reset
\* at its head (its first call) or a bind
FailedEarly(calls) ==
  {i \in 1..Len(calls) :
     /\ calls[i].r # "SQLITE_OK"
     /\ \/ i = 1 /\ calls[i].f = "sqlite3_reset"
        \/ i \in BindCalls(calls)}

\* C16: an exec whose sqlite3_reset or one of whose binds answers an error
\* returns false, stores a StatementError, makes after the failed call the
\* sqlite3_finalize of its statement and nothing else (no further bind, no
\* sqlite3_step), and leaves the cursor without a statement; a failed reset
\* comes before any bind.
C16_ResetOrBindFailure ==
  [][(/\ last'.op = "exec"
      /\ FailedEarly(last'.calls) # {}) =>
       LET cu == cur'[last'.c]
           n  == Len(last'.calls)
       IN
       /\ ~last'.ret
       /\ cu.lastError.type = "StatementError"
       /\ cu.stmt = 0
       /\ Steps(last'.calls) = 0
       /\ cur[last'.c].stmt # 0
       /\ last'.calls[n].f = "sqlite3_finalize"
       /\ FailedEarly(last'.calls) = {n - 1}
       /\ eng'.liveStmts = eng.liveStmts - 1
       /\ last'.calls[1].r # "SQLITE_OK" => BindCalls(last'.calls) = {}
    ]_vars

\* an exec with two values has failed on the bind of the first
C16_Witness ==
  /\ last.op = "exec" /\ last.path = "bind" /\ ~last.ret /\ last.arg = 2
  /\ Cardinality(BindCalls(last.calls)) = 1
  /\ cur[last.c].stmt = 0
  /\ cur[last.c].lastError.type = "StatementError"

\* every live cursor that holds a statement is under an open connection
StatementsUnderOpen(d, cs) ==
  \A c \in DOMAIN cs :
     (cs[c].alive /\ cs[c].stmt # 0) => (d.isOpen /\ ~d.isOpenError)

\* C17: in every state a live cursor that holds a statement is under a
\* connection that is open and not in the open-error state; after a close
\* no result of the tracked list holds a statement; and a prepare made while
\* the connection is not open or is in the open-error state compiles
\* nothing and leaves the cursor without a statement.
C17_StatementsNeedOpenConnection ==
  [][/\ StatementsUnderOpen(drv, cur)
     /\ StatementsUnderOpen(drv', cur')
     /\ last'.op = "close" =>
          \A k \in 1..Len(drv'.results) : cur'[drv'.results[k]].stmt = 0
     /\ (last'.op = "prepare" /\ (~drv.isOpen \/ drv.isOpenError)) =>
          /\ ~Compiled(last'.calls)
          /\ cur'[last'.c].stmt = 0
    ]_vars

\* an open that failed has closed the connection it had first, and the
\* cursor that held a statement holds none
C17_Witness ==
  /\ last.op = "open" /\ last.path = "failed"
  /\ CountCalls(last.calls, "sqlite3_finalize") = 1
  /\ drv.isOpenError /\ ~drv.isOpen
  /\ \E c \in DOMAIN cur : cur[c].alive
  /\ \A c \in DOMAIN cur : cur[c].stmt = 0

\* the cursors on the connection's list
Tracked(d) == {d.results[k] : k \in 1..Len(d.results)}

\* C18: after every operation the connection's list holds the live cursors
\* and nothing else, each once; createResult puts the new cursor on the
\* list, the destruction of a cursor takes it off, and open, close and
\* prepare leave the list as it is.
C18_TrackedAreLive ==
  [][/\ Tracked(drv') = {c \in DOMAIN cur' : cur'[c].alive}
     /\ Len(drv'.results) = Cardinality(Tracked(drv'))
     /\ last'.op = "createResult" => drv'.results = Append(drv.results, last'.c)
     /\ last'.op = "destroyResult" =>
          /\ last'.c \in Tracked(drv)
          /\ Tracked(drv') = Tracked(drv) \ {last'.c}
     /\ last'.op \in {"open", "close", "prepare"} => drv'.results = drv.results
    ]_vars

\* the cursor created first has been destroyed while a later one lives on
C18_Witness ==
  /\ last.op = "destroyResult" /\ last.c = 1
  /\ drv.results = <<2>>
  /\ ~cur[1].alive /\ cur[2].alive

\* C19: every prepare leaves the cursor reset: the statement it held is
\* finalized before anything is compiled, the columns are empty, no row
\* fetched ahead is pending, the position is BeforeFirstRow, the cursor is
\* not active, and the lastError of before the call is gone (a prepare that
\* succeeds leaves no error).
C19_PrepareResetsEverything ==
  [][last'.op = "prepare" =>
       LET cu == cur'[last'.c] IN
       /\ cur[last'.c].stmt # 0 =>
            /\ last'.calls # <<>>
            /\ last'.calls[1].f = "sqlite3_finalize"
       /\ cu.rInf = <<>>
       /\ ~cu.skipRow
       /\ cu.at = "BeforeFirstRow"
       /\ ~cu.active
       /\ last'.ret => cu.lastError = NoError
    ]_vars

\* a prepare made after the connection was closed has returned false and
\* left the cursor active, with its columns and with the row fetched ahead
\* still pending
C19_Witness ==
  /\ last.op = "prepare" /\ last.path = "closed" /\ ~last.ret
  /\ ~drv.isOpen
  /\ cur[last.c].active
  /\ cur[last.c].rInf # <<>>
  /\ cur[last.c].skipRow

\* C20: in every state a live cursor that is active holds a statement.
C20_ActiveHoldsStatement ==
  \A c \in DOMAIN cur :
     (cur[c].alive /\ cur[c].active) => cur[c].stmt # 0

\* a close has finalized the statement of a cursor that is still active
C20_Witness ==
  /\ last.op = "close"
  /\ CountCalls(last.calls, "sqlite3_finalize") = 1
  /\ \E c \in DOMAIN cur :
        cur[c].alive /\ cur[c].active /\ cur[c].stmt = 0

\* C21: once a gotoNext has returned false, the next gotoNext on that cursor
\* (no exec in between) returns false as well and makes no sqlite3_step.
C21_NoFetchPastTheEnd ==
  [][(/\ last.op = "gotoNext" /\ ~last.ret
      /\ last'.op = "gotoNext" /\ last'.c = last.c) =>
       /\ ~last'.ret
       /\ Steps(last'.calls) = 0
    ]_vars

\* a gotoNext has stepped the statement again and delivered a row although
\* a fetch of the same execution had reported the end
C21_Witness ==
  /\ last.op = "gotoNext" /\ last.path = "row" /\ last.ret
  /\ Steps(last.calls) = 1
  /\ cur[last.c].active
  /\ cur[last.c].at = "AfterLastRow"

\* the handles an operation handed to sqlite3_prepare16_v2
HandlesUsed(calls) ==
  {calls[i].a : i \in {j \in 1..Len(calls) : calls[j].f = "sqlite3_prepare16_v2"}}

\* C22: a prepare that calls sqlite3_prepare16_v2 hands it the handle the
\* connection owns at that moment, the connection it has open: not the
\* null pointer, not a handle sqlite3_close has released or a previous
\* connection left behind.
C22_CursorUsesCurrentHandle ==
  [][(last'.op = "prepare" /\ Compiled(last'.calls)) =>
       /\ cur[last'.c].access = drv.access
       /\ HandlesUsed(last'.calls) = {"open"}
    ]_vars

\* a cursor kept across a close and a new open has compiled on the handle
\* the close released
C22_Witness ==
  /\ last.op = "prepare"
  /\ HandlesUsed(last.calls) = {"released"}
  /\ drv.isOpen /\ drv.access = "open"
  /\ cur[last.c].access = "released"

\* C23: an open with an empty path returns false, makes no native call and
\* leaves the connection, its cursors and the engine as they were.
C23_EmptyPathChangesNothing ==
  [][(last'.op = "open" /\ last'.arg = 0) =>
       /\ ~last'.ret
       /\ last'.calls = <<>>
       /\ drv' = drv
       /\ cur' = cur
       /\ eng' = eng
    ]_vars

\* an open with an empty path has closed the connection that was open and
\* finalized the statement of its cursor
C23_Witness ==
  /\ last.op = "open" /\ last.arg = 0 /\ last.path = "empty" /\ ~last.ret
  /\ CountCalls(last.calls, "sqlite3_finalize") = 1
  /\ CountCalls(last.calls, "sqlite3_close") = 1
  /\ ~drv.isOpen /\ drv.access = "null"
  /\ \E c \in DOMAIN cur : cur[c].alive /\ cur[c].stmt = 0

====
